---- MODULE Spec2Model ----
(***************************************************************************)
(* Model of bbartling/ot-lan-rest-server:                                  *)
(*   - rust_client/src/main.rs : the gRPC ping/pong client (one run of     *)
(*     main: connect, one unary call, report, exit);                       *)
(*   - frontend/src/lib.rs     : the three wasm REST helpers create_user,  *)
(*     login and fetch_users.                                              *)
(* The two programs are independent; each has its own next-state relation  *)
(* and its own specification over the same variables.                      *)
(*                                                                         *)
(* Environment assumptions of the client model: the initial state is the   *)
(* one after Runtime::new() has returned a runtime (main.rs:13) and the    *)
(* process's standard output accepts the line println! writes.             *)
(* Environment assumptions of the frontend model: the functions run in a   *)
(* browser window, where web_sys::window(), Headers::new() and the Request *)
(* constructor succeed for the constant URLs and options the code passes.  *)
(***************************************************************************)
EXTENDS Integers, Sequences, FiniteSets, TLC

(* ---------------------------- bounds ----------------------------------- *)

\* longest reply text the remote service is let to send, beyond the two
\* texts "PONG" and "ping" that are always among the replies
MaxLen == 3

\* number of times each frontend operation may be invoked
MaxInvocations == 2

(* ---------------------------- texts ------------------------------------ *)

\* characters of the generated reply texts: a plain letter and the two
\* characters the Debug formatting of a string escapes
Alphabet == {"a", "\"", "\\"}

PING == <<"p", "i", "n", "g">>
PONG == <<"P", "O", "N", "G">>

Texts == UNION {[1..n -> Alphabet] : n \in 0..MaxLen} \cup {PING, PONG}

\* the literal part of the println! format string
Prefix == <<"P","i","n","g","P","o","n","g"," ","c","l","i","e","n","t"," ",
            "r","e","c","e","i","v","e","d",":"," ">>

\* the service address main connects to
Address == "http://localhost:50051"

\* char::escape_debug as str's Debug uses it, on the characters in use
EscapeDebug(c) ==
  IF c = "\"" THEN <<"\\", "\"">>
  ELSE IF c = "\\" THEN <<"\\", "\\">>
  ELSE IF c = "\n" THEN <<"\\", "n">>
  ELSE <<c>>

RECURSIVE EscapeAll(_)
EscapeAll(s) ==
  IF s = <<>> THEN <<>> ELSE EscapeDebug(Head(s)) \o EscapeAll(Tail(s))

\* "{:?}" applied to a String
DebugStr(s) == <<"\"">> \o EscapeAll(s) \o <<"\"">>

PrintLine_plain(pong) == pong \o <<"\n">>

\* println!("PingPong client received: {:?}", pong)
PrintLine(pong) == Prefix \o DebugStr(pong) \o <<"\n">>

(* ---------------------------- state ------------------------------------ *)

VARIABLES
  pc,          \* position of main's single task
  inflight,    \* network operations issued and not yet resumed from
  completion,  \* what the network delivered for the pending operation
  client,      \* the PingPongClient (connection handle) bound at main.rs:16
  request,     \* the tonic::Request built at main.rs:18
  response,    \* the PongResponse bound at main.rs:22
  err,         \* the error the ? operator returned from the async block
  stdout,      \* characters written to standard output
  stderr,      \* errors reported on standard error by main's Err return
  exitCode,    \* process exit status, -1 while running
  netLog,      \* history: operations the client issued to the network
  delivered,   \* history: completions the network delivered to the client
  fePc,        \* frontend: position of each operation's invocation
  feInv,       \* frontend: invocations started, per operation
  feReq,       \* frontend: the Request built by the current invocation
  feSent,      \* frontend: history of requests handed to fetch, per operation
  feResp,      \* frontend: what fetch / json() resolved with
  feResult     \* frontend: value the current invocation returned

clientVars == <<pc, inflight, completion, client, request, response, err,
                stdout, stderr, exitCode, netLog, delivered>>
feVars == <<fePc, feInv, feReq, feSent, feResp, feResult>>
vars == <<pc, inflight, completion, client, request, response, err,
          stdout, stderr, exitCode, netLog, delivered,
          fePc, feInv, feReq, feSent, feResp, feResult>>

None == [kind |-> "none"]

Ops == {"create_user", "login", "fetch_users"}

(* ------------------- the generated stub (tonic) ------------------------ *)

\* outcomes of the transport handshake
ConnectOutcomes ==
  {[kind |-> "established"], [kind |-> "unreachable"],
   [kind |-> "handshake_rejected"]}

\* gRPC status codes a service may answer with instead of a reply
StatusCodes == {"NOT_FOUND", "INTERNAL"}

\* outcomes of the unary call as seen on the wire
CallOutcomes ==
  {[kind |-> "reply", pong |-> t] : t \in Texts}
    \cup {[kind |-> "malformed"], [kind |-> "closed"]}
    \cup {[kind |-> "status", code |-> c] : c \in StatusCodes}

\* PingPongClient::connect(addr): Result<PingPongClient, transport::Error>
Connect(addr, outcome) ==
  IF outcome.kind = "established"
    THEN [ok |-> TRUE, handle |-> [endpoint |-> addr]]
    ELSE [ok |-> FALSE,
          error |-> [type |-> "ConnectError", cause |-> outcome.kind]]

\* client.ping(request): Result<Response<PongResponse>, Status>
Ping(outcome) ==
  CASE outcome.kind = "reply" ->
         [ok |-> TRUE, message |-> [pong |-> outcome.pong]]
    [] outcome.kind = "closed" ->
         [ok |-> FALSE, error |-> [type |-> "CallError", class |-> "transport"]]
    [] outcome.kind = "malformed" ->
         [ok |-> FALSE, error |-> [type |-> "CallError", class |-> "decode"]]
    [] outcome.kind = "status" ->
         [ok |-> FALSE, error |-> [type |-> "CallError", class |-> "remote",
                                   code |-> outcome.code]]

(* ------------------------- client: main -------------------------------- *)

feUnchanged == UNCHANGED feVars

\* main.rs:16  PingPongClient::connect("http://localhost:50051") is issued
\* and the task suspends on .await
StartConnect ==
  /\ pc = "Init"
  /\ pc' = "Connecting"
  /\ inflight' = inflight \cup {"connect"}
  /\ netLog' = Append(netLog, [op |-> "connect", addr |-> Address])
  /\ UNCHANGED <<completion, client, request, response, err, stdout, stderr,
                 exitCode, delivered>>
  /\ feUnchanged

\* the transport finishes the handshake, one way or the other
NetConnectCompletes(outcome) ==
  /\ pc = "Connecting"
  /\ completion = None
  /\ completion' = outcome
  /\ delivered' = Append(delivered, [op |-> "connect", outcome |-> outcome])
  /\ UNCHANGED <<pc, inflight, client, request, response, err, stdout, stderr,
                 exitCode, netLog>>
  /\ feUnchanged

ConnectOk_keepsInflight ==
  /\ pc = "Connecting"
  /\ completion # None
  /\ Connect(Address, completion).ok
  /\ client' = Connect(Address, completion).handle
  /\ pc' = "Connected"
  /\ completion' = None
  /\ UNCHANGED <<inflight, request, response, err, stdout, stderr, exitCode,
                 netLog, delivered>>
  /\ feUnchanged

\* main.rs:16  .await resumes with Ok: `let mut client = ...`
ConnectOk ==
  /\ pc = "Connecting"
  /\ completion # None
  /\ Connect(Address, completion).ok
  /\ client' = Connect(Address, completion).handle
  /\ pc' = "Connected"
  /\ inflight' = inflight \ {"connect"}
  /\ completion' = None
  /\ UNCHANGED <<request, response, err, stdout, stderr, exitCode,
                 netLog, delivered>>
  /\ feUnchanged

ConnectErr_fallsThrough ==
  /\ pc = "Connecting"
  /\ completion # None
  /\ ~Connect(Address, completion).ok
  /\ err' = Connect(Address, completion).error
  /\ pc' = "Connected"
  /\ inflight' = inflight \ {"connect"}
  /\ completion' = None
  /\ UNCHANGED <<client, request, response, stdout, stderr, exitCode,
                 netLog, delivered>>
  /\ feUnchanged

ConnectErr_retries ==
  /\ pc = "Connecting"
  /\ completion # None
  /\ ~Connect(Address, completion).ok
  /\ IF Len(netLog) < 2
       THEN /\ pc' = "Connecting"
            /\ netLog' = Append(netLog, [op |-> "connect", addr |-> Address])
            /\ UNCHANGED <<err, inflight>>
       ELSE /\ pc' = "Failed"
            /\ err' = Connect(Address, completion).error
            /\ inflight' = inflight \ {"connect"}
            /\ UNCHANGED netLog
  /\ completion' = None
  /\ UNCHANGED <<client, request, response, stdout, stderr, exitCode,
                 delivered>>
  /\ feUnchanged

\* main.rs:16  .await resumes with Err and ? returns it from the async block
ConnectErr ==
  /\ pc = "Connecting"
  /\ completion # None
  /\ ~Connect(Address, completion).ok
  /\ err' = Connect(Address, completion).error
  /\ pc' = "Failed"
  /\ inflight' = inflight \ {"connect"}
  /\ completion' = None
  /\ UNCHANGED <<client, request, response, stdout, stderr, exitCode,
                 netLog, delivered>>
  /\ feUnchanged

\* main.rs:18-22  the request is built, client.ping(request) is issued and
\* the task suspends on .await
StartCall ==
  /\ pc = "Connected"
  /\ request' = [ping |-> PING]
  /\ pc' = "Calling"
  /\ inflight' = inflight \cup {"call"}
  /\ netLog' = Append(netLog, [op |-> "call", via |-> client,
                               message |-> [ping |-> PING]])
  /\ UNCHANGED <<completion, client, response, err, stdout, stderr, exitCode,
                 delivered>>
  /\ feUnchanged

\* the remote answers the call, or the connection drops
NetCallCompletes(outcome) ==
  /\ pc = "Calling"
  /\ completion = None
  /\ completion' = outcome
  /\ delivered' = Append(delivered, [op |-> "call", outcome |-> outcome])
  /\ UNCHANGED <<pc, inflight, client, request, response, err, stdout, stderr,
                 exitCode, netLog>>
  /\ feUnchanged

\* main.rs:22  .await resumes with Ok: `let response = ...`
CallOk ==
  /\ pc = "Calling"
  /\ completion # None
  /\ Ping(completion).ok
  /\ response' = Ping(completion).message
  /\ pc' = "Succeeded"
  /\ inflight' = inflight \ {"call"}
  /\ completion' = None
  /\ UNCHANGED <<client, request, err, stdout, stderr, exitCode,
                 netLog, delivered>>
  /\ feUnchanged

CallErr_swallowed ==
  /\ pc = "Calling"
  /\ completion # None
  /\ ~Ping(completion).ok
  /\ response' = [pong |-> <<>>]
  /\ pc' = "Succeeded"
  /\ inflight' = inflight \ {"call"}
  /\ completion' = None
  /\ UNCHANGED <<client, request, err, stdout, stderr, exitCode,
                 netLog, delivered>>
  /\ feUnchanged

CallErr_timeout ==
  /\ pc = "Calling"
  /\ \/ /\ completion # None
        /\ ~Ping(completion).ok
        /\ err' = Ping(completion).error
     \/ /\ completion = None
        /\ err' = [type |-> "CallError", class |-> "transport"]
  /\ pc' = "Failed"
  /\ inflight' = inflight \ {"call"}
  /\ completion' = None
  /\ UNCHANGED <<client, request, response, stdout, stderr, exitCode,
                 netLog, delivered>>
  /\ feUnchanged

\* main.rs:22  .await resumes with Err and ? returns it from the async block
CallErr ==
  /\ pc = "Calling"
  /\ completion # None
  /\ ~Ping(completion).ok
  /\ err' = Ping(completion).error
  /\ pc' = "Failed"
  /\ inflight' = inflight \ {"call"}
  /\ completion' = None
  /\ UNCHANGED <<client, request, response, stdout, stderr, exitCode,
                 netLog, delivered>>
  /\ feUnchanged

Report_echo ==
  /\ pc = "Succeeded"
  /\ stdout' = stdout \o PrintLine(request.ping)
  /\ exitCode' = 0
  /\ pc' = "Terminated"
  /\ UNCHANGED <<inflight, completion, client, request, response, err, stderr,
                 netLog, delivered>>
  /\ feUnchanged

\* main.rs:24-27  println! of the pong, Ok(()) out of block_on and of main:
\* the process exits with status 0
Report ==
  /\ pc = "Succeeded"
  /\ stdout' = stdout \o PrintLine(response.pong)
  /\ exitCode' = 0
  /\ pc' = "Terminated"
  /\ UNCHANGED <<inflight, completion, client, request, response, err, stderr,
                 netLog, delivered>>
  /\ feUnchanged

FailExit_zero ==
  /\ pc = "Failed"
  /\ stderr' = Append(stderr, err)
  /\ exitCode' = 0
  /\ pc' = "Terminated"
  /\ UNCHANGED <<inflight, completion, client, request, response, err, stdout,
                 netLog, delivered>>
  /\ feUnchanged

FailExit_restart ==
  /\ pc = "Failed"
  /\ IF Len(netLog) < 3
       THEN /\ pc' = "Init"
            /\ UNCHANGED <<stderr, exitCode>>
       ELSE /\ stderr' = Append(stderr, err)
            /\ exitCode' = 1
            /\ pc' = "Terminated"
  /\ UNCHANGED <<inflight, completion, client, request, response, err, stdout,
                 netLog, delivered>>
  /\ feUnchanged

\* main.rs:15,27 and fn main's Result return: block_on hands the Err to
\* main, whose Err return is reported on standard error with exit status 1
FailExit ==
  /\ pc = "Failed"
  /\ stderr' = Append(stderr, err)
  /\ exitCode' = 1
  /\ pc' = "Terminated"
  /\ UNCHANGED <<inflight, completion, client, request, response, err, stdout,
                 netLog, delivered>>
  /\ feUnchanged

\* steps of the client's own task
ClientStep ==
  \/ StartConnect
  \/ ConnectOk
  \/ ConnectErr
  \/ StartCall
  \/ CallOk
  \/ CallErr
  \/ Report
  \/ FailExit

\* steps of the network and the remote service
NetStep ==
  \/ \E o \in ConnectOutcomes : NetConnectCompletes(o)
  \/ \E o \in CallOutcomes : NetCallCompletes(o)

ClientNext == ClientStep \/ NetStep

(* ------------------------- frontend: lib.rs ---------------------------- *)

Usernames == {"alice"}
Emails == {"alice@example.org"}
Passwords == {"secret"}
Tokens == {"t1", "t2"}

\* HTTP statuses the REST server is let to answer with
Statuses == {200, 404, 500}

\* response bodies the REST server is let to send
Bodies == {"{\"id\":1}", "[]", "<html>"}

\* Response.ok: the status is in the range 200-299
RespOk(status) == status >= 200 /\ status <= 299

\* Response.json(): the promise resolves with the parsed value or rejects
JsonParse(body) ==
  CASE body = "{\"id\":1}" -> [ok |-> TRUE, value |-> [id |-> 1]]
    [] body = "[]" -> [ok |-> TRUE, value |-> <<>>]
    [] OTHER -> [ok |-> FALSE, value |-> [exception |-> "SyntaxError"]]

\* what fetch settles with: a response, or a rejection (network error)
FetchOutcomes ==
  {[kind |-> "response", status |-> s, body |-> b] : s \in Statuses, b \in Bodies}
    \cup {[kind |-> "rejected", exception |-> "TypeError"]}

\* inputs of one invocation of each operation
Inputs(o) ==
  CASE o = "create_user" ->
         {[username |-> u, email |-> e, password |-> p, token |-> t] :
            u \in Usernames, e \in Emails, p \in Passwords, t \in Tokens}
    [] o = "login" ->
         {[username |-> u, password |-> p] : u \in Usernames, p \in Passwords}
    [] o = "fetch_users" -> {[none |-> TRUE]}

\* the Request each operation builds
BuildRequest(o, in) ==
  CASE o = "create_user" ->
         [method |-> "POST", mode |-> "cors", url |-> "/api/users/",
          headers |-> {<<"Content-Type", "application/json">>,
                       <<"Authorization", <<"Bearer ", in.token>> >>},
          body |-> <<"json", <<"username", in.username>>,
                     <<"email", in.email>>, <<"password", in.password>> >>]
    [] o = "login" ->
         [method |-> "POST", mode |-> "cors", url |-> "/api/login/",
          headers |-> {<<"Content-Type", "application/json">>},
          body |-> <<"json", <<"username", in.username>>,
                     <<"password", in.password>> >>]
    [] o = "fetch_users" ->
         [method |-> "GET", mode |-> "cors", url |-> "/api/users/",
          headers |-> {}, body |-> <<>>]

FailureText_same(o) == "HTTP request failed"

\* the string each operation returns as Err on a non-success status
FailureText(o) ==
  CASE o = "create_user" -> "HTTP request failed"
    [] o = "login" -> "Login failed"
    [] o = "fetch_users" -> "Failed to fetch users"

clientUnchanged == UNCHANGED clientVars

\* the operation is called: the request is built and handed to fetch, and
\* the future suspends on .await
Invoke(o, in) ==
  /\ fePc[o] \in {"idle", "done"}
  /\ feInv[o] < MaxInvocations
  /\ feInv' = [feInv EXCEPT ![o] = @ + 1]
  /\ feReq' = [feReq EXCEPT ![o] = BuildRequest(o, in)]
  /\ feSent' = [feSent EXCEPT ![o] = Append(@, BuildRequest(o, in))]
  /\ feResp' = [feResp EXCEPT ![o] = None]
  /\ feResult' = [feResult EXCEPT ![o] = None]
  /\ fePc' = [fePc EXCEPT ![o] = "fetching"]
  /\ clientUnchanged

\* the browser settles the fetch promise
FetchSettles(o, outcome) ==
  /\ fePc[o] = "fetching"
  /\ feResp[o] = None
  /\ feResp' = [feResp EXCEPT ![o] = outcome]
  /\ UNCHANGED <<fePc, feInv, feReq, feSent, feResult>>
  /\ clientUnchanged

\* JsFuture::from(fetch).await? : the promise was rejected, ? returns the
\* exception as Err
FetchRejected(o) ==
  /\ fePc[o] = "fetching"
  /\ feResp[o] # None
  /\ feResp[o].kind = "rejected"
  /\ feResult' = [feResult EXCEPT
                    ![o] = [ok |-> FALSE, value |-> [exception |-> feResp[o].exception]]]
  /\ fePc' = [fePc EXCEPT ![o] = "done"]
  /\ UNCHANGED <<feInv, feReq, feSent, feResp>>
  /\ clientUnchanged

\* resp.ok() is true: resp.json() is started and the future suspends on it
StatusOk(o) ==
  /\ fePc[o] = "fetching"
  /\ feResp[o] # None
  /\ feResp[o].kind = "response"
  /\ RespOk(feResp[o].status)
  /\ fePc' = [fePc EXCEPT ![o] = "parsing"]
  /\ UNCHANGED <<feInv, feReq, feSent, feResp, feResult>>
  /\ clientUnchanged

\* resp.ok() is false: the operation returns its fixed failure string
StatusNotOk(o) ==
  /\ fePc[o] = "fetching"
  /\ feResp[o] # None
  /\ feResp[o].kind = "response"
  /\ ~RespOk(feResp[o].status)
  /\ feResult' = [feResult EXCEPT
                    ![o] = [ok |-> FALSE, value |-> FailureText(o)]]
  /\ fePc' = [fePc EXCEPT ![o] = "done"]
  /\ UNCHANGED <<feInv, feReq, feSent, feResp>>
  /\ clientUnchanged

\* JsFuture::from(resp.json()?).await? resolves: Ok(json)
JsonOk(o) ==
  /\ fePc[o] = "parsing"
  /\ JsonParse(feResp[o].body).ok
  /\ feResult' = [feResult EXCEPT
                    ![o] = [ok |-> TRUE, value |-> JsonParse(feResp[o].body).value]]
  /\ fePc' = [fePc EXCEPT ![o] = "done"]
  /\ UNCHANGED <<feInv, feReq, feSent, feResp>>
  /\ clientUnchanged

\* JsFuture::from(resp.json()?).await? rejects: ? returns the exception
JsonErr(o) ==
  /\ fePc[o] = "parsing"
  /\ ~JsonParse(feResp[o].body).ok
  /\ feResult' = [feResult EXCEPT
                    ![o] = [ok |-> FALSE, value |-> JsonParse(feResp[o].body).value]]
  /\ fePc' = [fePc EXCEPT ![o] = "done"]
  /\ UNCHANGED <<feInv, feReq, feSent, feResp>>
  /\ clientUnchanged

FrontendNext ==
  \E o \in Ops :
    \/ \E in \in Inputs(o) : Invoke(o, in)
    \/ \E r \in FetchOutcomes : FetchSettles(o, r)
    \/ FetchRejected(o)
    \/ StatusOk(o)
    \/ StatusNotOk(o)
    \/ JsonOk(o)
    \/ JsonErr(o)

Init ==
  /\ pc = "Init"
  /\ inflight = {}
  /\ completion = None
  /\ client = None
  /\ request = None
  /\ response = None
  /\ err = None
  /\ stdout = <<>>
  /\ stderr = <<>>
  /\ exitCode = -1
  /\ netLog = <<>>
  /\ delivered = <<>>
  /\ fePc = [o \in Ops |-> "idle"]
  /\ feInv = [o \in Ops |-> 0]
  /\ feReq = [o \in Ops |-> None]
  /\ feSent = [o \in Ops |-> <<>>]
  /\ feResp = [o \in Ops |-> None]
  /\ feResult = [o \in Ops |-> None]

\* one run of the client
Spec == Init /\ [][ClientNext]_vars

\* one run of the client in which the task is scheduled whenever it can run
\* and every pending network operation eventually completes
LiveSpec == Spec /\ WF_vars(ClientStep) /\ WF_vars(NetStep)

\* the frontend operations, invoked by the page in any interleaving
FrontendSpec == Init /\ [][FrontendNext]_vars

(* ------------------------- history helpers ----------------------------- *)

Issued(op) == {i \in 1..Len(netLog) : netLog[i].op = op}

Delivered(op) == {i \in 1..Len(delivered) : delivered[i].op = op}

ConnectFailed ==
  \E i \in Delivered("connect") : delivered[i].outcome.kind # "established"

ConnectSucceeded ==
  \E i \in Delivered("connect") : delivered[i].outcome.kind = "established"

CallSucceeded ==
  \E i \in Delivered("call") : delivered[i].outcome.kind = "reply"

CallEndedWith(kind) ==
  \E i \in Delivered("call") : delivered[i].outcome.kind = kind

(* ------------------------------ claims --------------------------------- *)

\* C1: once the connect has failed no call is ever issued; the run can only
\* be resuming from the connect, failed, or terminated, and it terminates
\* with the connect error reported and a non-zero exit status.
C1_NoCallAfterFailedConnect ==
  ConnectFailed =>
    /\ Issued("call") = {}
    /\ request = None
    /\ client = None
    /\ pc \in {"Connecting", "Failed", "Terminated"}
    /\ pc \in {"Failed", "Terminated"} => err.type = "ConnectError"
    /\ pc = "Terminated" =>
         /\ Len(stderr) = 1 /\ stderr[1].type = "ConnectError"
         /\ exitCode # 0

C1_Witness ==
  /\ pc = "Terminated"
  /\ ConnectFailed
  /\ stderr = <<[type |-> "ConnectError", cause |-> "unreachable"]>>

\* C2: one run issues exactly one connect (as soon as it has left its
\* initial state) and at most one call, whatever connect and call return.
C2_NoRetry ==
  /\ Cardinality(Issued("connect")) = (IF pc = "Init" THEN 0 ELSE 1)
  /\ Cardinality(Issued("call")) <= 1
  /\ Len(netLog) = Cardinality(Issued("connect")) + Cardinality(Issued("call"))
  /\ pc \in {"Calling", "Succeeded"} => Cardinality(Issued("call")) = 1
  /\ Cardinality(Delivered("connect")) <= 1
  /\ Cardinality(Delivered("call")) <= 1

C2_Witness ==
  /\ pc = "Terminated"
  /\ err.type = "CallError"
  /\ Cardinality(Issued("connect")) = 1
  /\ Cardinality(Issued("call")) = 1

Lifecycle ==
  {<<"Init", "Connecting">>, <<"Connecting", "Connected">>,
   <<"Connecting", "Failed">>, <<"Connected", "Calling">>,
   <<"Calling", "Succeeded">>, <<"Calling", "Failed">>,
   <<"Succeeded", "Terminated">>, <<"Failed", "Terminated">>}

\* C3: every step of the run either keeps the lifecycle state or takes one
\* of the transitions Init -> Connecting -> Connected -> Calling ->
\* {Succeeded, Failed} -> Terminated (Failed also from Connecting); nothing
\* leads back to Init and nothing changes once Terminated.
C3_Lifecycle ==
  [][ /\ pc' # pc => <<pc, pc'>> \in Lifecycle
      /\ pc' = "Init" => pc = "Init"
      /\ pc = "Terminated" => UNCHANGED clientVars ]_vars

C3_Witness ==
  /\ pc = "Terminated"
  /\ exitCode = 0
  /\ Len(netLog) = 2

\* C4: a terminated run either succeeded (the pong line is all of standard
\* output, nothing on standard error, exit status 0) or reported exactly one
\* connect or call error (nothing on standard output, non-zero exit status);
\* the exit status is 0 exactly when both connect and call succeeded.
C4_Outcome ==
  /\ pc # "Terminated" => exitCode = -1
  /\ pc = "Terminated" =>
       /\ \/ /\ exitCode = 0
             /\ response # None
             /\ stdout = PrintLine(response.pong)
             /\ stderr = <<>>
          \/ /\ exitCode > 0
             /\ stdout = <<>>
             /\ Len(stderr) = 1
             /\ stderr[1].type \in {"ConnectError", "CallError"}
             /\ response = None
       /\ exitCode = 0 <=> (ConnectSucceeded /\ CallSucceeded)

C4_Witness ==
  /\ pc = "Terminated"
  /\ exitCode = 1
  /\ stderr[1].type = "CallError"
  /\ ConnectSucceeded

\* C5: standard output is empty unless the remote returned a decodable reply
\* to this run's call, and what is then written is the line formatted from
\* the pong of that very reply, whatever its text.
C5_PongFromReply ==
  /\ ~CallSucceeded => stdout = <<>> /\ response = None
  /\ stdout # <<>> =>
       \E i \in Delivered("call") :
         /\ Delivered("call") = {i}
         /\ delivered[i].outcome.kind = "reply"
         /\ response = [pong |-> delivered[i].outcome.pong]
         /\ stdout = PrintLine(delivered[i].outcome.pong)

C5_Witness ==
  /\ pc = "Terminated"
  /\ CallSucceeded
  /\ response = [pong |-> <<>>]
  /\ request = [ping |-> PING]
  /\ stdout = PrintLine(<<>>)

RepliedPONG ==
  /\ Len(netLog) = 2
  /\ netLog[1] = [op |-> "connect", addr |-> "http://localhost:50051"]
  /\ netLog[2].message = [ping |-> <<"p", "i", "n", "g">>]
  /\ \E i \in Delivered("call") :
       delivered[i].outcome = [kind |-> "reply", pong |-> <<"P", "O", "N", "G">>]

\* C6 as stated: with the reply pong="PONG" to ping="ping", the text
\* printed on standard output is PONG (with or without the line end) and
\* the exit status is 0.
C6_Original ==
  (pc = "Terminated" /\ RepliedPONG) =>
    /\ stdout \in {<<"P", "O", "N", "G">>, <<"P", "O", "N", "G", "\n">>}
    /\ exitCode = 0

\* C6 amended: with the reply pong="PONG" to ping="ping", the line printed
\* on standard output is  PingPong client received: "PONG"  and the exit
\* status is 0.
C6_Amended ==
  (pc = "Terminated" /\ RepliedPONG) =>
    /\ stdout = <<"P","i","n","g","P","o","n","g"," ","c","l","i","e","n","t",
                  " ","r","e","c","e","i","v","e","d",":"," ",
                  "\"","P","O","N","G","\"","\n">>
    /\ exitCode = 0

C6_Witness ==
  /\ pc = "Terminated"
  /\ RepliedPONG
  /\ stdout # <<>>

CallErrorOf(kind) ==
  CASE kind = "closed" -> "transport"
    [] kind = "malformed" -> "decode"
    [] kind = "status" -> "remote"

C9_OneInFlight ==
  /\ Cardinality(inflight) <= 1
  /\ inflight # {} <=> pc \in {"Connecting", "Calling"}
  /\ pc = "Connecting" => inflight = {"connect"}
  /\ pc = "Calling" => inflight = {"call"} /\ client = [endpoint |-> Address]
  /\ completion # None => inflight # {}
  /\ client # None => ConnectSucceeded

C9_Witness ==
  /\ inflight = {"call"}
  /\ completion # None
  /\ Cardinality(Issued("connect")) = 1

Pending == pc \in {"Connecting", "Calling"} /\ completion = None

\* C10: when the task is scheduled and every pending network operation
\* eventually completes, the run eventually terminates; and while a connect
\* or a call is pending with nothing delivered the client has no step of its
\* own (no timeout, no cancellation), so only the network can end the wait.
C10_Termination ==
  /\ <>(pc = "Terminated")
  /\ [](Pending => ~ENABLED ClientStep)

C10_Witness ==
  /\ pc = "Calling"
  /\ completion = None
  /\ ~ENABLED ClientStep

(* ---- frontend ---- *)

HttpFailed(o) ==
  /\ fePc[o] = "done"
  /\ feResp[o].kind = "response"
  /\ ~(feResp[o].status \in 200..299)

HttpSucceeded(o) ==
  /\ fePc[o] = "done"
  /\ feResp[o].kind = "response"
  /\ feResp[o].status \in 200..299
  /\ feResp[o].body \in {"{\"id\":1}", "[]"}

OneRequestEach ==
  \A o \in Ops :
    /\ Len(feSent[o]) = feInv[o]
    /\ fePc[o] # "idle" => feSent[o][feInv[o]] = feReq[o]

VerbatimJson ==
  \A o \in Ops :
    HttpSucceeded(o) =>
      feResult[o] = [ok |-> TRUE,
                     value |-> IF feResp[o].body = "[]" THEN <<>> ELSE [id |-> 1]]

\* C8 as stated: one request per invocation, the parsed body returned on a
\* success status, and on a non-success status one and the same failure
\* value in all three operations.
C8_Original ==
  /\ OneRequestEach
  /\ VerbatimJson
  /\ \A o1, o2 \in Ops :
       (HttpFailed(o1) /\ HttpFailed(o2)) =>
         /\ ~feResult[o1].ok
         /\ feResult[o1] = feResult[o2]

\* C8 amended: one request per invocation, the parsed body returned on a
\* success status, and on a non-success status a failure string that does
\* not depend on the status but is the operation's own: "HTTP request
\* failed" for create_user, "Login failed" for login, "Failed to fetch
\* users" for fetch_users.
C8_Amended ==
  /\ OneRequestEach
  /\ VerbatimJson
  /\ HttpFailed("create_user") =>
       feResult["create_user"] = [ok |-> FALSE, value |-> "HTTP request failed"]
  /\ HttpFailed("login") =>
       feResult["login"] = [ok |-> FALSE, value |-> "Login failed"]
  /\ HttpFailed("fetch_users") =>
       feResult["fetch_users"] = [ok |-> FALSE, value |-> "Failed to fetch users"]

C8_Witness ==
  /\ HttpFailed("create_user") /\ feResp["create_user"].status = 404
  /\ HttpFailed("login") /\ feResp["login"].status = 500
  /\ HttpSucceeded("fetch_users")
  /\ feInv["fetch_users"] = 1

====
